---- MODULE Spec2Model ----
(***************************************************************************)
(* Request coordination and delivery of the chat application:              *)
(*   - ChatService (request registry, processAsync run, durable store      *)
(*     with in-memory fallback),                                           *)
(*   - the HTTP and WebSocket handlers of the server (app.ts),             *)
(*   - the client hooks useChat / useWebSocket / usePolling.               *)
(*                                                                         *)
(* Spec           the registry and the runs under HTTP submissions, sweeps *)
(* SpecPush       the push side under arbitrary connections                *)
(* SpecRegistry   the registry's transition methods applied on their own   *)
(* SpecClient     one useChat client end to end against the server         *)
(* SpecClientLive the same client under fair scheduling                    *)
(***************************************************************************)
EXTENDS Integers, Sequences, FiniteSets, TLC

\* ---------------------------------------------------------------- bounds
MaxRequests == 1        \* requests created in one behaviour
MaxConns    == 1        \* connections arbitrary peers open in one behaviour
MaxSockets  == 2        \* sockets the useChat client opens in one behaviour
MaxTime     == 1        \* the clock runs 0..MaxTime
MaxAge      == 0        \* sweep(maxAge) is tried for maxAge in 0..MaxAge
RoundCap    == 2        \* tool rounds one run is explored for
MaxPolls    == 2        \* status queries of the client in flight at once
MaxCallers  == 2        \* callers of MCPManager.initialize / listSkills at a time
MaxConnectTimers == 2   \* reconnect() calls whose connect timeout is pending at once
SharedRounds == 1       \* tool rounds of all runs together, with overlapping runs

\* The configured maximum number of tool rounds of spec section 4.2.
LoopLimit == 1

\* useWebSocket option default.
maxReconnectAttempts == 5

\* Request ids: those generateRequestId hands out (1..MaxRequests, in the order
\* of creation) and one more, which is given to a request only where submissions
\* overlap (SpecShared), since a status lookup or a transition may name any id.
Req  == 1..(MaxRequests + 1)
Conn == 1..(IF MaxConns > MaxSockets THEN MaxConns ELSE MaxSockets)
Time == 0..MaxTime
Caller == 1..MaxCallers

NoReq      == 0          \* null pendingRequestId
NoConv     == -1         \* undefined conversationId
NoResponse == 0          \* undefined response
NoError    == "none"     \* undefined error

\* A conversation id a submitter supplies that the server did not generate.
UserConv == MaxTime + 1

\* The conversationId values a submission may carry.
ConvInputs == {NoConv, UserConv}

\* The conversation ids in use: `conv_${Date.now()}` and the supplied one.
ConvIds == 0..UserConv

\* Message texts a submitter may send: empty, whitespace only, real text.
Msgs == {"", " ", "hi"}

\* String.prototype.trim on the texts above.
Trim(m) == IF m = " " THEN "" ELSE m

\* JavaScript truthiness of a string.
Truthy(m) == m # ""

\* The numbers of tool calls one assistant message may carry.
CallCounts == {1, 2}

\* let skillExecution = null, and the ChatMessage before it is built.
NoExecution == [call |-> 0, output |-> "none"]
NoMessage   == [built |-> FALSE, skillExecution |-> NoExecution]

\* Before any cleanupOldRequests call.
NoCutoff == -(MaxAge + 1)

\* The arrays holding transcripts: the one getConversationHistory creates for a
\* conversation in inMemoryConversations, and the one it builds for a run from the
\* rows of the messages table.
NoRef == -1
ConvRef(conv) == conv
RunRef(r) == UserConv + r
Refs == 0..(UserConv + MaxRequests + 1)

VARIABLES
    \* ------------------------------------------------ server (ChatService, app.ts)
    dbConfigured,     \* db !== null (DATABASE_URL set)
    now,              \* Date.now()
    nextReq,          \* number of request ids generated so far
    mem,              \* inMemoryPendingRequests
    dbRows,           \* pendingRequests table of the durable store
    pc,               \* where each request's processAsync run stands
    rounds,           \* tool rounds each run has executed
    caught,           \* the error a run's catch block captured
    wsConnections,    \* the server's connection map
    channels,         \* the sockets whose open handler has run and close handler has not
    nextConn,         \* number of connection ids generated so far
    outbox,           \* per connection: the events the server sent on it, in order
    swept,            \* ids a sweep has removed
    \* ------------------------------------------------ transcripts (ChatService)
    args,             \* per run: the conversationId and message processAsync was given
    history,          \* per run: the array its local `history` refers to
    arrays,           \* the transcript arrays by reference
    inMemoryConversations,   \* conversationId -> array
    dbMessages,       \* the rows of the messages table, per conversation in order
    calls,            \* per run: tool calls of the round being executed
    results,          \* per run: success of each executeSkill result so far, in order
    skillExecution,   \* per run: the local skillExecution of processAsync
    chatMessage,      \* per run: the ChatMessage built for the response
    cutoffTime,       \* cutoffTime of the latest cleanupOldRequests call
    \* ------------------------------------------------ client (useChat and its hooks)
    isLoading,
    error,
    pendingRequestId,
    usePollingFallback,
    conversationIdRef,
    finals,           \* per request: final outcomes the client applied (append / error)
    wsState,          \* readyState of wsRef.current ("none" before the first socket)
    isConnected,
    reconnectAttempts,
    reconnectTimer,   \* reconnectTimeoutRef holds a pending timeout
    sock,             \* the server's connection id of the current socket (0: not accepted)
    delivered,        \* number of events of outbox[sock] the client has handled
    toServer,         \* frames the client sent on the current socket, not yet handled
    post,             \* the POST /api/chat exchange of sendMessage
    polls,            \* the GET /api/messages exchanges in flight
    lastVia,          \* how the last accepted sendMessage left the client
    lastReq,          \* the request the server created for it (NoReq: none so far)
    submits,          \* accepted sendMessage calls so far
    pollEnded,        \* requests a poll result said completed, error or not_found about
    intentional,      \* disconnect() was called and reconnect() has not been since
    detached,         \* sockets disconnect() closed whose close event is still to come
    connectTimer,     \* pending setTimeout(connect, 100) timeouts of reconnect()
    pingIntervalRef,  \* the socket whose keepalive interval pingIntervalRef holds
    leakedIntervals,  \* keepalive intervals still running that no ref holds
    isReconnecting,
    \* ------------------------------------------------ MCPManager
    isInitialized,
    mcpClient,        \* this.client: "null" or "set"
    skills,           \* this.skills: "empty" or "listed"
    transports,       \* transport / client pairs created since the last shutdown()
    initPc            \* per caller: where its initialize() stands

\* The transcripts, the response under construction and the sweep's cutoff are
\* followed in SpecRun, SpecShared and SpecSweep; the other specifications leave
\* them out (no run, lookup or sweep reads them back to decide what to do).
transcriptVars == <<args, history, arrays, inMemoryConversations, dbMessages,
                    calls, results, skillExecution, chatMessage, cutoffTime>>
mcpVars == <<isInitialized, mcpClient, skills, transports, initPc>>
serverVars == <<mcpVars, dbConfigured, now, nextReq, mem, dbRows, pc, rounds, caught,
                wsConnections, channels, nextConn, outbox, swept, transcriptVars>>
clientVars == <<isLoading, error, pendingRequestId, usePollingFallback,
                conversationIdRef, finals, wsState, isConnected, reconnectAttempts,
                reconnectTimer, sock, delivered, toServer, post, polls, lastVia,
                lastReq, submits, pollEnded, intentional, detached, connectTimer,
                pingIntervalRef, leakedIntervals, isReconnecting>>
vars == <<serverVars, clientVars>>

\* ------------------------------------------------------------ the registry
\* A PendingRequest carries status, conversationId, response, error, createdAt
\* (userMessage, which nothing reads back, is left out).
Absent == [status |-> "absent", conversationId |-> NoConv,
           response |-> NoResponse, error |-> NoError, createdAt |-> 0]

Terminal == {"completed", "error"}

\* The PendingRequest processMessage builds.
NewRequest(conv, msg) ==
    [status |-> "pending", conversationId |-> conv,
     response |-> NoResponse, error |-> NoError, createdAt |-> now]

\* Outcomes of one operation on the durable store: none when db is null.
DbOutcomes == IF dbConfigured THEN {TRUE, FALSE} ELSE {FALSE}

\* updateRequestStatus: the in-memory half.
MemSetStatus(m, r, s) ==
    IF m[r].status # "absent" THEN [m EXCEPT ![r].status = s] ELSE m

\* updateRequestStatus: db.update(...).set({status}), ok = the update did not throw.
DbSetStatus(d, r, s, ok) ==
    IF ok /\ d[r].status # "absent" THEN [d EXCEPT ![r].status = s] ELSE d

\* completeRequest: the in-memory half.
MemComplete(m, r, msg) ==
    IF m[r].status # "absent"
    THEN [m EXCEPT ![r].status = "completed", ![r].response = msg]
    ELSE m

\* completeRequest: db.update(...).set({status: 'completed', responseId}).
DbComplete(d, r, msg, ok) ==
    IF ok /\ d[r].status # "absent"
    THEN [d EXCEPT ![r].status = "completed", ![r].response = msg]
    ELSE d

\* A failRequest that sets the status and forgets the error text.
MemFailStatusOnly(m, r, e) ==
    IF m[r].status # "absent" THEN [m EXCEPT ![r].status = "error"] ELSE m

\* failRequest: the in-memory half.
MemFail(m, r, e) ==
    IF m[r].status # "absent"
    THEN [m EXCEPT ![r].status = "error", ![r].error = e]
    ELSE m

\* failRequest: db.update(...).set({status: 'error', error}).
DbFail(d, r, e, ok) ==
    IF ok /\ d[r].status # "absent"
    THEN [d EXCEPT ![r].status = "error", ![r].error = e]
    ELSE d

\* A lookup that answers a placeholder for an id it does not hold.
getRequestStatusPlaceholder(r) ==
    IF mem[r].status = "absent" THEN [Absent EXCEPT !.status = "pending"] ELSE mem[r]

\* getRequestStatus: the in-memory map only.
getRequestStatus(r) == mem[r]

\* GET /api/messages/:requestId
StatusResponse(r) ==
    LET request == getRequestStatus(r) IN
    IF request.status = "absent"
    THEN [success |-> FALSE, status |-> "not_found", message |-> NoResponse,
          error |-> "Request not found"]
    ELSE [success |-> TRUE, status |-> request.status, message |-> request.response,
          error |-> request.error]

\* The stored request wherever it lives (a request lives in one store only).
StoredIn(m, d, r) == IF m[r].status # "absent" THEN m[r] ELSE d[r]
Stored(r) == StoredIn(mem, dbRows, r)

\* ------------------------------------------------------------ push events
\* An event the server sends on a connection. connConv is the conversationId the
\* connection had registered when the event was sent (not part of the payload).
Event(type, r, msg, err, conv, connConv) ==
    [type |-> type, requestId |-> r, message |-> msg, error |-> err,
     conversationId |-> conv, connConv |-> connConv]

TerminalEvents == {"message_complete", "message_error"}

NoConnection == [open |-> FALSE, conversationId |-> NoConv]

\* Callbacks whose events overtake what the connection was sent before.
BroadcastAhead(out, type, r, msg, err) ==
    [c \in Conn |->
        IF wsConnections[c].open /\ c \in channels
        THEN <<Event(type, r, msg, err, NoConv, wsConnections[c].conversationId)>> \o out[c]
        ELSE out[c]]

\* The callbacks onMessageComplete / onMessageError: for (const conn of wsConnections)
\* conn.send({type, requestId, ...}). A frame sent on a closed socket is dropped.
Broadcast(out, type, r, msg, err) ==
    [c \in Conn |->
        IF wsConnections[c].open /\ c \in channels
        THEN Append(out[c], Event(type, r, msg, err, NoConv,
                                  wsConnections[c].conversationId))
        ELSE out[c]]

\* A callback that throws after the request was completed lands in the catch block.
AfterNotifyCompleteThrows == "fail"

\* How the try block of processAsync is left once onMessageComplete has been
\* called: conn.send returns (Bun's ServerWebSocket.send reports a dropped frame
\* by its return value), so the callback returns and the run is done.
AfterNotifyComplete == "done"

\* ------------------------------------------------------------ ChatService
\* processMessage(conversationId, message): creates the request, stores it in the
\* durable store or, when that is not configured or throws, in memory, and starts
\* processAsync. Without a durable store processAsync runs on without suspending up
\* to the first model call, so the request is 'processing' when the caller resumes.
ProcessMessage(conv, msg) ==
    LET r == nextReq + 1
        request == NewRequest(conv, msg)
    IN  /\ r \in Req
        /\ nextReq' = r
        /\ \E insertOk \in DbOutcomes :
              IF insertOk
              THEN /\ dbRows' = [dbRows EXCEPT ![r] = request]
                   /\ mem' = mem
              ELSE /\ mem' = [mem EXCEPT ![r] =
                                IF dbConfigured THEN request
                                ELSE [request EXCEPT !.status = "processing"]]
                   /\ dbRows' = dbRows
        /\ pc' = [pc EXCEPT ![r] = IF dbConfigured THEN "start" ELSE "model"]

\* processAsync, with a durable store: updateRequestStatus(requestId, 'processing')
\* resumes after db.update; the history is loaded, the user message saved and the
\* first model call issued.
StartRun(r) ==
    /\ pc[r] = "start"
    /\ \E ok \in DbOutcomes : dbRows' = DbSetStatus(dbRows, r, "processing", ok)
    /\ mem' = MemSetStatus(mem, r, "processing")
    /\ pc' = [pc EXCEPT ![r] = "model"]
    /\ UNCHANGED <<mcpVars, dbConfigured, now, nextReq, rounds, caught, wsConnections, channels,
                   nextConn, outbox, swept>>
    /\ UNCHANGED clientVars

\* openai.chat.completions.create returns a message with tool calls: the loop body
\* is entered and the skill is called.
ModelToolCalls(r) ==
    /\ pc[r] = "model"
    /\ rounds[r] < RoundCap
    /\ rounds' = [rounds EXCEPT ![r] = @ + 1]
    /\ pc' = [pc EXCEPT ![r] = "skill"]
    /\ UNCHANGED <<mcpVars, dbConfigured, now, nextReq, mem, dbRows, caught, wsConnections, channels,
                   nextConn, outbox, swept>>
    /\ UNCHANGED clientVars

\* mcpManager.executeSkill returns (success or not): the tool result is pushed and
\* the next model call is issued.
SkillReturns(r) ==
    /\ pc[r] = "skill"
    /\ pc' = [pc EXCEPT ![r] = "model"]
    /\ UNCHANGED <<mcpVars, dbConfigured, now, nextReq, mem, dbRows, rounds, caught,
                   wsConnections, channels, nextConn, outbox, swept>>
    /\ UNCHANGED clientVars

\* The model call returns a message without tool calls: the loop ends, the
\* assistant message is saved.
ModelFinal(r) ==
    /\ pc[r] = "model"
    /\ pc' = [pc EXCEPT ![r] = "complete"]
    /\ UNCHANGED <<mcpVars, dbConfigured, now, nextReq, mem, dbRows, rounds, caught,
                   wsConnections, channels, nextConn, outbox, swept>>
    /\ UNCHANGED clientVars

\* The model call throws, returns no choice ('No response from OpenAI'), or the
\* arguments of a tool call do not parse: control passes to the catch block.
ModelThrows(r) ==
    /\ pc[r] = "model"
    /\ caught' = [caught EXCEPT ![r] = "No response from OpenAI"]
    /\ pc' = [pc EXCEPT ![r] = "fail"]
    /\ UNCHANGED <<mcpVars, dbConfigured, now, nextReq, mem, dbRows, rounds,
                   wsConnections, channels, nextConn, outbox, swept>>
    /\ UNCHANGED clientVars

\* completeRequest(requestId, chatMessage) and the onMessageComplete callback;
\* saved = the insert of the assistant message into the messages table did not throw.
CompleteWith(r, saved) ==
    /\ pc[r] = "complete"
    /\ \E ok \in DbOutcomes :
          \* responseMessageId stays undefined when the assistant message's insert throws
          dbRows' = DbComplete(dbRows, r, IF saved THEN r ELSE NoResponse, ok)
    /\ mem' = MemComplete(mem, r, r)
    /\ outbox' = Broadcast(outbox, "message_complete", r, r, NoError)
    /\ IF AfterNotifyComplete = "done"
       THEN /\ pc' = [pc EXCEPT ![r] = "done"]
            /\ caught' = caught
       ELSE /\ pc' = [pc EXCEPT ![r] = "fail"]
            /\ caught' = [caught EXCEPT ![r] = "send failed"]
    /\ UNCHANGED <<mcpVars, dbConfigured, now, nextReq, rounds, wsConnections, channels, nextConn, swept>>
    /\ UNCHANGED clientVars

CompleteStep(r) == \E saved \in DbOutcomes : CompleteWith(r, saved)

\* The catch block: failRequest(requestId, errorMessage) and the onMessageError
\* callback.
FailStep(r) ==
    /\ pc[r] = "fail"
    /\ \E ok \in DbOutcomes : dbRows' = DbFail(dbRows, r, caught[r], ok)
    /\ mem' = MemFail(mem, r, caught[r])
    /\ outbox' = Broadcast(outbox, "message_error", r, NoResponse, caught[r])
    /\ pc' = [pc EXCEPT ![r] = "done"]
    /\ UNCHANGED <<mcpVars, dbConfigured, now, nextReq, rounds, caught, wsConnections, channels,
                   nextConn, swept>>
    /\ UNCHANGED clientVars

\* cleanupOldRequests(maxAgeMs)
Expired(request, maxAge) == request.status # "absent" /\ now - request.createdAt > maxAge

CleanupRegistry(maxAge) ==
    /\ \E ok \in DbOutcomes :
          dbRows' = [r \in Req |-> IF ok /\ Expired(dbRows[r], maxAge)
                                   THEN Absent ELSE dbRows[r]]
    /\ mem' = [r \in Req |-> IF Expired(mem[r], maxAge) THEN Absent ELSE mem[r]]
    /\ swept' = swept \cup {r \in Req : Stored(r).status # "absent"
                                        /\ mem'[r].status = "absent"
                                        /\ dbRows'[r].status = "absent"}
    /\ UNCHANGED <<mcpVars, dbConfigured, now, nextReq, pc, rounds, caught, wsConnections, channels,
                   nextConn, outbox>>
    /\ UNCHANGED clientVars

CleanupOldRequests(maxAge) == CleanupRegistry(maxAge) /\ UNCHANGED transcriptVars

Sweep == \E maxAge \in 0..MaxAge : CleanupOldRequests(maxAge)

Tick ==
    /\ now < MaxTime
    /\ now' = now + 1
    /\ UNCHANGED <<mcpVars, dbConfigured, nextReq, mem, dbRows, pc, rounds, caught,
                   wsConnections, channels, nextConn, outbox, swept, transcriptVars>>
    /\ UNCHANGED clientVars

\* ------------------------------------------------------------ app.ts handlers
\* conversationId || `conv_${Date.now()}`
ConvIdFor(conv) == IF conv # NoConv THEN conv ELSE now

\* (ws.data.store).connId: ws.data is the context of the upgrade request and its
\* store is the application's one state object, shared by every connection, so
\* the slot holds the id the latest open handler wrote.
StoreConnId == nextConn

\* .ws open(ws): registers the connection and greets it.
WsOpen(c) ==
    /\ c = nextConn + 1
    /\ nextConn' = c
    /\ channels' = channels \cup {c}
    /\ wsConnections' = [wsConnections EXCEPT ![c] = [open |-> TRUE, conversationId |-> NoConv]]
    /\ outbox' = [outbox EXCEPT ![c] =
                    Append(@, Event("connected", NoReq, NoResponse, NoError, NoConv, NoConv))]
    /\ UNCHANGED <<mcpVars, dbConfigured, now, nextReq, mem, dbRows, pc, rounds, caught, swept,
                   transcriptVars>>

\* .ws message(ws, data) with data.type = 'message': the entry updated is the one
\* under the store's connId, the acknowledgment goes out on ws itself.
WsMessage(c, msg, conv) ==
    /\ c \in channels
    /\ IF Truthy(msg)
       THEN /\ ProcessMessage(ConvIdFor(conv), msg)
            /\ wsConnections' =
                  IF wsConnections[StoreConnId].open
                  THEN [wsConnections EXCEPT ![StoreConnId].conversationId = ConvIdFor(conv)]
                  ELSE wsConnections
            /\ outbox' = [outbox EXCEPT ![c] =
                            Append(@, Event("message_received", nextReq + 1, NoResponse,
                                            NoError, ConvIdFor(conv), ConvIdFor(conv)))]
       ELSE UNCHANGED <<nextReq, mem, dbRows, pc, wsConnections, outbox>>
    /\ UNCHANGED <<mcpVars, dbConfigured, now, rounds, caught, channels, nextConn, swept>>

\* .ws close(ws): wsConnections.delete of the store's connId.
WsClose(c) ==
    /\ c \in channels
    /\ channels' = channels \ {c}
    /\ wsConnections' = [wsConnections EXCEPT ![StoreConnId] = NoConnection]
    /\ UNCHANGED <<mcpVars, dbConfigured, now, nextReq, mem, dbRows, pc, rounds, caught,
                   nextConn, outbox, swept, transcriptVars>>

\* POST /api/chat: what the handler answers ...
PostChatResponse(msg, conv) ==
    IF ~Truthy(Trim(msg))
    THEN [success |-> FALSE, requestId |-> NoReq, conversationId |-> NoConv]
    ELSE [success |-> TRUE, requestId |-> nextReq + 1, conversationId |-> ConvIdFor(conv)]

\* ... and what it does.
PostChat(msg, conv) ==
    /\ IF Truthy(Trim(msg))
       THEN ProcessMessage(ConvIdFor(conv), msg)
       ELSE UNCHANGED <<nextReq, mem, dbRows, pc>>
    /\ UNCHANGED <<mcpVars, dbConfigured, now, rounds, caught, wsConnections, channels, nextConn,
                   outbox, swept>>

\* ------------------------------------------------------------ initial state
InitServer ==
    /\ isInitialized = FALSE
    /\ mcpClient = "null"
    /\ skills = "empty"
    /\ transports = 0
    /\ initPc = [k \in Caller |-> "idle"]
    /\ dbConfigured \in BOOLEAN
    /\ now = 0
    /\ nextReq = 0
    /\ mem = [r \in Req |-> Absent]
    /\ dbRows = [r \in Req |-> Absent]
    /\ pc = [r \in Req |-> "none"]
    /\ rounds = [r \in Req |-> 0]
    /\ caught = [r \in Req |-> NoError]
    /\ wsConnections = [c \in Conn |-> NoConnection]
    /\ channels = {}
    /\ nextConn = 0
    /\ outbox = [c \in Conn |-> <<>>]
    /\ swept = {}
    /\ args = [r \in Req |-> [conversationId |-> NoConv, message |-> ""]]
    /\ history = [r \in Req |-> NoRef]
    /\ arrays = [a \in Refs |-> <<>>]
    /\ inMemoryConversations = [conv \in ConvIds |-> NoRef]
    /\ dbMessages = [conv \in ConvIds |-> <<>>]
    /\ calls = [r \in Req |-> 0]
    /\ results = [r \in Req |-> <<>>]
    /\ skillExecution = [r \in Req |-> NoExecution]
    /\ chatMessage = [r \in Req |-> NoMessage]
    /\ cutoffTime = NoCutoff

NoPost == [phase |-> "none", message |-> "", conversationId |-> NoConv,
           success |-> FALSE, requestId |-> NoReq]
NoPoll == [phase |-> "none", requestId |-> NoReq, success |-> FALSE, status |-> "",
           message |-> NoResponse, error |-> NoError]

\* useChat mounted: useWebSocket's mount effect has called connect().
InitClient ==
    /\ isLoading = FALSE
    /\ error = NoError
    /\ pendingRequestId = NoReq
    /\ usePollingFallback = FALSE
    /\ conversationIdRef = NoConv
    /\ finals = [r \in Req |-> 0]
    /\ wsState = "connecting"
    /\ isConnected = FALSE
    /\ reconnectAttempts = 0
    /\ reconnectTimer = FALSE
    /\ sock = 0
    /\ delivered = 0
    /\ toServer = <<>>
    /\ post = NoPost
    /\ polls = [s \in 1..MaxPolls |-> NoPoll]
    /\ lastVia = "none"
    /\ lastReq = NoReq
    /\ submits = 0
    /\ pollEnded = {}
    /\ intentional = FALSE
    /\ detached = 0
    /\ connectTimer = 0
    /\ pingIntervalRef = "none"
    /\ leakedIntervals = 0
    /\ isReconnecting = FALSE

Init == InitServer /\ InitClient

\* ------------------------------------------------------------ Spec: the server
\* The server under arbitrary connections and submitters.
Open == \E c \in Conn : nextConn < MaxConns /\ WsOpen(c) /\ UNCHANGED clientVars
Message == \E c \in Conn, msg \in Msgs, conv \in ConvInputs :
              /\ nextReq < MaxRequests
              /\ WsMessage(c, msg, conv) /\ UNCHANGED <<clientVars, transcriptVars>>
Close == \E c \in Conn : WsClose(c) /\ UNCHANGED clientVars
Post == \E msg \in Msgs, conv \in ConvInputs :
           /\ nextReq < MaxRequests
           /\ PostChat(msg, conv) /\ UNCHANGED <<clientVars, transcriptVars>>
Run == \E r \in Req :
          \/ StartRun(r) /\ UNCHANGED transcriptVars
          \/ ModelToolCalls(r) /\ UNCHANGED transcriptVars
          \/ SkillReturns(r) /\ UNCHANGED transcriptVars
          \/ ModelFinal(r) /\ UNCHANGED transcriptVars
          \/ ModelThrows(r) /\ UNCHANGED transcriptVars
          \/ CompleteStep(r) /\ UNCHANGED transcriptVars
          \/ FailStep(r) /\ UNCHANGED transcriptVars

\* Spec: the registry and the runs, under HTTP submissions, sweeps and the clock.
Next == Post \/ Run \/ Sweep \/ Tick

Spec == Init /\ [][Next]_vars

\* A run without its tool rounds: ModelToolCalls and SkillReturns change only pc
\* and rounds and come back to the model call, which ModelFinal / ModelThrows leave.
RunNoTools == \E r \in Req :
          \/ StartRun(r) /\ UNCHANGED transcriptVars
          \/ ModelFinal(r) /\ UNCHANGED transcriptVars
          \/ ModelThrows(r) /\ UNCHANGED transcriptVars
          \/ CompleteStep(r) /\ UNCHANGED transcriptVars
          \/ FailStep(r) /\ UNCHANGED transcriptVars

\* SpecPush: the push side, under connections opening, submitting and closing.
NextPush == Open \/ Message \/ Close \/ Post \/ RunNoTools

SpecPush == Init /\ [][NextPush]_vars

\* SpecConnections: the push side with one connection more, so that two are
\* open at a time.
OpenMore == \E c \in Conn : nextConn < MaxConns + 1 /\ WsOpen(c) /\ UNCHANGED clientVars

NextConnections == OpenMore \/ Message \/ Close \/ Post \/ RunNoTools

SpecConnections == Init /\ [][NextConnections]_vars

\* SpecRegistry: the registry's methods on their own, as a caller holding a
\* ChatService may apply them (processMessage creates, the three private methods
\* transition).
RegCreate == \E conv \in ConvInputs :
    /\ nextReq < MaxRequests
    /\ ProcessMessage(ConvIdFor(conv), "hi")
    /\ UNCHANGED <<mcpVars, dbConfigured, now, rounds, caught, wsConnections, channels, nextConn,
                   outbox, swept, transcriptVars>>
    /\ UNCHANGED clientVars

RegUpdateStatus == \E r \in Req, ok \in DbOutcomes :
    /\ Stored(r).status # "absent"
    /\ dbRows' = DbSetStatus(dbRows, r, "processing", ok)
    /\ mem' = MemSetStatus(mem, r, "processing")
    /\ UNCHANGED <<mcpVars, dbConfigured, now, nextReq, pc, rounds, caught, wsConnections, channels,
                   nextConn, outbox, swept, transcriptVars>>
    /\ UNCHANGED clientVars

RegComplete == \E r \in Req, ok \in DbOutcomes :
    /\ Stored(r).status # "absent"
    /\ dbRows' = DbComplete(dbRows, r, r, ok)
    /\ mem' = MemComplete(mem, r, r)
    /\ UNCHANGED <<mcpVars, dbConfigured, now, nextReq, pc, rounds, caught, wsConnections, channels,
                   nextConn, outbox, swept, transcriptVars>>
    /\ UNCHANGED clientVars

RegFail == \E r \in Req, ok \in DbOutcomes, e \in {"No response from OpenAI", "boom"} :
    /\ Stored(r).status # "absent"
    /\ dbRows' = DbFail(dbRows, r, e, ok)
    /\ mem' = MemFail(mem, r, e)
    /\ UNCHANGED <<mcpVars, dbConfigured, now, nextReq, pc, rounds, caught, wsConnections, channels,
                   nextConn, outbox, swept, transcriptVars>>
    /\ UNCHANGED clientVars

NextRegistry == RegCreate \/ RegUpdateStatus \/ RegComplete \/ RegFail \/ Tick

SpecRegistry == Init /\ [][NextRegistry]_vars

\* ------------------------------------------------------------ transcripts
\* An entry of a transcript. req is the run that pushed it (not part of the entry);
\* calls is the number of tool calls an assistant entry carries.
Entry(role, r, n, content) == [role |-> role, req |-> r, calls |-> n, content |-> content]

\* getSystemMessage()
SystemMessage == Entry("system", NoReq, 0, "system")

\* { role: 'user', content: message }
UserEntry(r, msg) == Entry("user", r, 0, msg)

\* The message of a model response: with tool calls (n > 0) or final (n = 0).
AssistantEntry(r, n) == Entry("assistant", r, n, "answer")

\* A tool result that reports a failed skill as if it had succeeded.
ToolContentHidesError(success) == "output"

\* JSON.stringify(result.success ? result.output : { error: result.error })
ToolContent(success) == IF success THEN "output" ELSE "{error:boom}"

\* { role: 'tool', tool_call_id, content }
ToolEntry(r, success) == Entry("tool", r, 0, ToolContent(success))

\* A history that is built without the system message.
GetConversationHistoryNoSystem(conv, r, found) ==
    IF found
    THEN [ref |-> RunRef(r),
          arrays |-> [arrays EXCEPT ![RunRef(r)] = dbMessages[conv]],
          map |-> inMemoryConversations]
    ELSE IF inMemoryConversations[conv] = NoRef
         THEN [ref |-> ConvRef(conv),
               arrays |-> [arrays EXCEPT ![ConvRef(conv)] = <<>>],
               map |-> [inMemoryConversations EXCEPT ![conv] = ConvRef(conv)]]
         ELSE [ref |-> inMemoryConversations[conv],
               arrays |-> arrays,
               map |-> inMemoryConversations]

\* getConversationHistory(conversationId) as called by run r: the rows of the
\* messages table behind the system message when the query returns rows (found),
\* else the array of inMemoryConversations, created on a miss.
GetConversationHistory(conv, r, found) ==
    IF found
    THEN [ref |-> RunRef(r),
          arrays |-> [arrays EXCEPT ![RunRef(r)] = <<SystemMessage>> \o dbMessages[conv]],
          map |-> inMemoryConversations]
    ELSE IF inMemoryConversations[conv] = NoRef
         THEN [ref |-> ConvRef(conv),
               arrays |-> [arrays EXCEPT ![ConvRef(conv)] = <<SystemMessage>>],
               map |-> [inMemoryConversations EXCEPT ![conv] = ConvRef(conv)]]
         ELSE [ref |-> inMemoryConversations[conv],
               arrays |-> arrays,
               map |-> inMemoryConversations]

\* A run that works on a copy of the conversation's array.
BeginRunOwnArray(r, conv, msg, readOk, saved) ==
    LET h == GetConversationHistory(conv, r, readOk /\ dbMessages[conv] # <<>>) IN
    /\ history' = [history EXCEPT ![r] = RunRef(r)]
    /\ arrays' = [h.arrays EXCEPT ![RunRef(r)] = Append(h.arrays[h.ref], UserEntry(r, msg))]
    /\ inMemoryConversations' = h.map
    /\ dbMessages' = IF saved
                     THEN [dbMessages EXCEPT ![conv] = Append(@, UserEntry(r, msg))]
                     ELSE dbMessages
    /\ UNCHANGED <<calls, results>>

\* processAsync from getConversationHistory to the first model call (lines 127-154):
\* the history is loaded, the user message pushed and, with a durable store,
\* inserted into the messages table (saved = the insert did not throw).
BeginRun(r, conv, msg, readOk, saved) ==
    LET h == GetConversationHistory(conv, r, readOk /\ dbMessages[conv] # <<>>) IN
    /\ history' = [history EXCEPT ![r] = h.ref]
    /\ arrays' = [h.arrays EXCEPT ![h.ref] = Append(@, UserEntry(r, msg))]
    /\ inMemoryConversations' = h.map
    /\ dbMessages' = IF saved
                     THEN [dbMessages EXCEPT ![conv] = Append(@, UserEntry(r, msg))]
                     ELSE dbMessages
    /\ UNCHANGED <<calls, results>>

\* history.push(entry) by run r.
Push(r, entry) == [arrays EXCEPT ![history[r]] = Append(@, entry)]

\* A round that pushes the result of each of its calls twice.
ToolEntriesPushedTwice(r, outcome) ==
    [i \in 1..(2 * Len(outcome)) |-> ToolEntry(r, outcome[(i + 1) \div 2])]

\* The tool results of one round, one per call in the order of the calls.
ToolEntries(r, outcome) == [i \in DOMAIN outcome |-> ToolEntry(r, outcome[i])]

\* processMessage, for the transcripts: processAsync is called with the request's
\* conversationId and message and, without a durable store, runs on to its first
\* model call before anything else does.
TrProcessMessage(conv, msg) ==
    /\ args' = [args EXCEPT ![nextReq + 1] = [conversationId |-> conv, message |-> msg]]
    /\ UNCHANGED <<skillExecution, chatMessage, cutoffTime>>
    /\ IF dbConfigured
       THEN UNCHANGED <<history, arrays, inMemoryConversations, dbMessages, calls, results>>
       ELSE BeginRun(nextReq + 1, conv, msg, FALSE, FALSE)

\* POST /api/chat with the transcripts followed.
TrPost == \E msg \in Msgs, conv \in ConvInputs :
    /\ nextReq < MaxRequests
    /\ PostChat(msg, conv)
    /\ IF nextReq' # nextReq
       THEN TrProcessMessage(ConvIdFor(conv), msg)
       ELSE UNCHANGED transcriptVars
    /\ UNCHANGED clientVars

\* .ws message with the transcripts followed.
TrMessage == \E c \in Conn, msg \in Msgs, conv \in ConvInputs :
    /\ nextReq < MaxRequests
    /\ WsMessage(c, msg, conv)
    /\ IF nextReq' # nextReq
       THEN TrProcessMessage(ConvIdFor(conv), msg)
       ELSE UNCHANGED transcriptVars
    /\ UNCHANGED clientVars

\* The steps of processAsync with the transcripts followed.
TrStartRun(r) ==
    /\ StartRun(r)
    /\ \E readOk \in DbOutcomes, saved \in DbOutcomes :
          BeginRun(r, args[r].conversationId, args[r].message, readOk, saved)
    /\ UNCHANGED <<args, skillExecution, chatMessage, cutoffTime>>

\* history.push(assistantMessage) at the head of the loop body.
TrModelToolCalls(r) ==
    /\ ModelToolCalls(r)
    /\ \E n \in CallCounts :
          /\ arrays' = Push(r, AssistantEntry(r, n))
          /\ calls' = [calls EXCEPT ![r] = n]
    /\ UNCHANGED <<args, history, inMemoryConversations, dbMessages, results,
                   skillExecution, chatMessage, cutoffTime>>

\* skillExecution = { skillName, input, output: result.success ? result.output :
\* { error: result.error } }: the k-th invocation of the run and what it gave.
SkillExecution(k, success) == [call |-> k, output |-> ToolContent(success)]

\* A loop that keeps the first execution it tracked.
TrackedFirst(prev, done, outcome) ==
    IF prev # NoExecution \/ outcome = <<>> THEN prev
    ELSE SkillExecution(done + 1, outcome[1])

\* The local skillExecution after a round: the assignment is made for every
\* call in turn, so the last call of the round stays.
Tracked(prev, done, outcome) ==
    IF outcome = <<>> THEN prev
    ELSE SkillExecution(done + Len(outcome), outcome[Len(outcome)])

\* The for loop over the tool calls of the round: executeSkill is called once per
\* call, its result tracked as skillExecution and, output or { error }, pushed.
TrSkillReturns(r) ==
    /\ SkillReturns(r)
    /\ \E outcome \in [1..calls[r] -> BOOLEAN] :
          /\ arrays' = [arrays EXCEPT ![history[r]] = @ \o ToolEntries(r, outcome)]
          /\ results' = [results EXCEPT ![r] = @ \o outcome]
          /\ skillExecution' = [skillExecution EXCEPT ![r] =
                                  Tracked(@, Len(results[r]), outcome)]
    /\ UNCHANGED <<args, history, inMemoryConversations, dbMessages, calls,
                   chatMessage, cutoffTime>>

\* history.push(assistantMessage) after the loop, and the ChatMessage of the
\* response with skillExecution attached (undefined when it is null).
TrModelFinal(r) ==
    /\ ModelFinal(r)
    /\ arrays' = Push(r, AssistantEntry(r, 0))
    /\ chatMessage' = [chatMessage EXCEPT ![r] =
                          [built |-> TRUE, skillExecution |-> skillExecution[r]]]
    /\ UNCHANGED <<args, history, inMemoryConversations, dbMessages, calls, results,
                   skillExecution, cutoffTime>>

\* The assistant message is inserted into the messages table, then
\* inMemoryConversations.set(conversationId, history), then completeRequest.
TrCompleteStep(r) ==
    \E saved \in DbOutcomes :
        /\ CompleteWith(r, saved)
        /\ dbMessages' = IF saved
                         THEN [dbMessages EXCEPT ![args[r].conversationId] =
                                  Append(@, AssistantEntry(r, 0))]
                         ELSE dbMessages
        /\ inMemoryConversations' =
              [inMemoryConversations EXCEPT ![args[r].conversationId] = history[r]]
        /\ UNCHANGED <<args, history, arrays, calls, results, skillExecution,
                       chatMessage, cutoffTime>>

TrRun == \E r \in Req :
    \/ TrStartRun(r)
    \/ TrModelToolCalls(r)
    \/ TrSkillReturns(r)
    \/ TrModelFinal(r)
    \/ ModelThrows(r) /\ UNCHANGED transcriptVars
    \/ TrCompleteStep(r)
    \/ FailStep(r) /\ UNCHANGED transcriptVars

\* cleanupOldRequests(maxAgeMs) with its cutoffTime = Date.now() - maxAgeMs kept.
TrCleanupOldRequests(maxAge) ==
    /\ CleanupRegistry(maxAge)
    /\ cutoffTime' = now - maxAge
    /\ UNCHANGED <<args, history, arrays, inMemoryConversations, dbMessages, calls,
                   results, skillExecution, chatMessage>>

TrSweep == \E maxAge \in 0..MaxAge : TrCleanupOldRequests(maxAge)

\* SpecSweep: the registry and the runs under HTTP submissions and the clock, with
\* the cutoff of each sweep kept.
NextSweep == Post \/ Run \/ TrSweep \/ Tick

SpecSweep == Init /\ [][NextSweep]_vars

\* SpecRun: the runs and their transcripts, under submissions on both paths.
NextRun == Open \/ TrMessage \/ TrPost \/ TrRun

SpecRun == Init /\ [][NextRun]_vars

\* ------------------------------------------------------------ SpecArguments
\* JSON.parse(toolCall.function.arguments) throws inside the for loop: control
\* passes to the catch block from the middle of a round.
ArgumentsThrow(r) ==
    /\ pc[r] = "skill"
    /\ caught' = [caught EXCEPT ![r] = "Unexpected token"]
    /\ pc' = [pc EXCEPT ![r] = "fail"]
    /\ UNCHANGED <<mcpVars, dbConfigured, now, nextReq, mem, dbRows, rounds,
                   wsConnections, channels, nextConn, outbox, swept>>
    /\ UNCHANGED clientVars

\* The calls of a round of n that were executed before the one whose arguments
\* did not parse.
ExecutedBeforeThrow(n) == 0..(n - 1)

\* The for loop when the arguments of one of its calls do not parse: the calls
\* before it were executed, tracked and pushed, the others never are.
TrArgumentsThrow(r) ==
    /\ ArgumentsThrow(r)
    /\ \E done \in ExecutedBeforeThrow(calls[r]) :
       \E outcome \in [1..done -> BOOLEAN] :
          /\ arrays' = [arrays EXCEPT ![history[r]] = @ \o ToolEntries(r, outcome)]
          /\ results' = [results EXCEPT ![r] = @ \o outcome]
          /\ skillExecution' = [skillExecution EXCEPT ![r] =
                                  Tracked(@, Len(results[r]), outcome)]
    /\ UNCHANGED <<args, history, inMemoryConversations, dbMessages, calls,
                   chatMessage, cutoffTime>>

ArgumentsRun == \E r \in Req : TrArgumentsThrow(r)

\* SpecArguments: SpecRun with a model whose tool calls may carry arguments that
\* are not JSON.
NextArguments == Open \/ TrMessage \/ TrPost \/ TrRun \/ ArgumentsRun

SpecArguments == Init /\ [][NextArguments]_vars

\* ------------------------------------------------------------ SpecShared
\* POST /api/chat while an earlier request may still be running.
ShPost == \E msg \in Msgs, conv \in ConvInputs :
    /\ nextReq < MaxRequests + 1
    /\ PostChat(msg, conv)
    /\ IF nextReq' # nextReq
       THEN TrProcessMessage(ConvIdFor(conv), msg)
       ELSE UNCHANGED transcriptVars
    /\ UNCHANGED clientVars

\* The tool rounds all runs have entered.
RECURSIVE RoundsOf(_)
RoundsOf(r) == IF r = 0 THEN 0 ELSE rounds[r] + RoundsOf(r - 1)

\* The steps of processAsync, of any of the runs in flight.
ShRun == \E r \in Req :
    \/ TrStartRun(r)
    \/ RoundsOf(MaxRequests + 1) < SharedRounds /\ TrModelToolCalls(r)
    \/ TrSkillReturns(r)
    \/ TrModelFinal(r)
    \/ ModelThrows(r) /\ UNCHANGED transcriptVars
    \/ TrCompleteStep(r)
    \/ FailStep(r) /\ UNCHANGED transcriptVars

\* SpecShared: overlapping HTTP submissions, their runs and their transcripts.
NextShared == ShPost \/ ShRun \/ Tick

SpecShared == Init /\ [][NextShared]_vars

\* ------------------------------------------------------------ useChat
wsVars   == <<wsState, isConnected, reconnectAttempts, reconnectTimer, sock,
              delivered, toServer>>
chatVars == <<isLoading, error, pendingRequestId, usePollingFallback,
              conversationIdRef, finals>>
sentVars == <<lastVia, lastReq, submits, pollEnded>>
apiVars  == <<intentional, detached, connectTimer>>
keepVars == <<pingIntervalRef, leakedIntervals, isReconnecting>>

\* The effect on [wsConnected, pendingRequestId, usePollingFallback]: run after each
\* render, it turns polling on when the socket is down and a request is pending.
FallbackEffect(connected, pending, fallback) ==
    fallback \/ (~connected /\ pending # NoReq)

\* The final outcome of request r is applied (message appended or error recorded).
Applied(r) == [finals EXCEPT ![r] = @ + 1]

\* onMessageComplete(requestId, message)
OnMessageComplete(r) ==
    IF r = pendingRequestId \/ pendingRequestId = NoReq
    THEN /\ finals' = Applied(r)
         /\ isLoading' = FALSE
         /\ pendingRequestId' = NoReq
         /\ UNCHANGED <<error, usePollingFallback, conversationIdRef>>
    ELSE UNCHANGED chatVars

\* onMessageError(requestId, errorMsg)
OnMessageError(r, errorMsg) ==
    IF r = pendingRequestId \/ pendingRequestId = NoReq
    THEN /\ finals' = Applied(r)
         /\ error' = errorMsg
         /\ isLoading' = FALSE
         /\ pendingRequestId' = NoReq
         /\ UNCHANGED <<usePollingFallback, conversationIdRef>>
    ELSE UNCHANGED chatVars

\* onMessageReceived(requestId, conversationId)
OnMessageReceived(r, conv) ==
    /\ pendingRequestId' = r
    /\ conversationIdRef' = conv
    /\ usePollingFallback' = FallbackEffect(isConnected, r, usePollingFallback)
    /\ UNCHANGED <<isLoading, error, finals>>

\* A handler that reports not_found and leaves polling on.
HandlePollResultKeepsPolling(result) ==
    IF ~result.success
    THEN IF result.status = "not_found"
         THEN /\ error' = "Message request not found"
              /\ isLoading' = FALSE
              /\ UNCHANGED <<pendingRequestId, usePollingFallback, conversationIdRef, finals>>
         ELSE UNCHANGED chatVars
    ELSE IF result.status \in {"completed", "error"}
         THEN /\ finals' = Applied(result.requestId)
              /\ isLoading' = FALSE
              /\ pendingRequestId' = NoReq
              /\ usePollingFallback' = FALSE
              /\ UNCHANGED <<error, conversationIdRef>>
         ELSE UNCHANGED chatVars

\* handlePollResult(result), result being the answer to a query about result.requestId
HandlePollResult(result) ==
    IF ~result.success
    THEN IF result.status = "not_found"
         THEN /\ error' = "Message request not found"
              /\ isLoading' = FALSE
              /\ pendingRequestId' = NoReq
              /\ usePollingFallback' = FALSE
              /\ UNCHANGED <<conversationIdRef, finals>>
         ELSE UNCHANGED chatVars
    ELSE IF result.status = "completed" /\ result.message # NoResponse
         THEN /\ finals' = Applied(result.requestId)
              /\ isLoading' = FALSE
              /\ pendingRequestId' = NoReq
              /\ usePollingFallback' = FALSE
              /\ UNCHANGED <<error, conversationIdRef>>
         ELSE IF result.status = "error"
              THEN /\ finals' = Applied(result.requestId)
                   /\ error' = IF result.error # NoError THEN result.error
                               ELSE "An error occurred"
                   /\ isLoading' = FALSE
                   /\ pendingRequestId' = NoReq
                   /\ usePollingFallback' = FALSE
                   /\ UNCHANGED conversationIdRef
              ELSE UNCHANGED chatVars

\* The onError option given to usePolling.
OnPollError ==
    /\ error' = "Failed to get response"
    /\ isLoading' = FALSE
    /\ pendingRequestId' = NoReq
    /\ usePollingFallback' = FALSE
    /\ UNCHANGED <<conversationIdRef, finals>>

\* sendMessage(content): over the socket when wsConnected (useWebSocket.sendMessage
\* drops the frame unless readyState is OPEN), else POST /api/chat with polling on.
SendMessage(content) ==
    /\ submits < MaxRequests
    /\ Truthy(Trim(content))
    /\ ~isLoading
    /\ post.phase = "none"
    /\ error' = NoError
    /\ isLoading' = TRUE
    /\ submits' = submits + 1
    /\ lastReq' = NoReq
    /\ IF isConnected
       THEN /\ IF wsState = "open"
               THEN /\ toServer' = Append(toServer,
                                     [message |-> Trim(content),
                                      conversationId |-> conversationIdRef])
                    /\ lastVia' = "ws"
               ELSE /\ toServer' = toServer
                    /\ lastVia' = "dropped"
            /\ UNCHANGED <<usePollingFallback, post>>
       ELSE /\ usePollingFallback' = TRUE
            /\ post' = [NoPost EXCEPT !.phase = "req", !.message = Trim(content),
                                      !.conversationId = conversationIdRef]
            /\ lastVia' = "http"
            /\ toServer' = toServer
    /\ UNCHANGED <<pendingRequestId, conversationIdRef, finals, polls, pollEnded, apiVars, keepVars>>
    /\ UNCHANGED <<wsState, isConnected, reconnectAttempts, reconnectTimer, sock, delivered>>
    /\ UNCHANGED serverVars

\* The server handles the POST of sendMessage.
ServerPost ==
    /\ post.phase = "req"
    /\ PostChat(post.message, post.conversationId)
    /\ LET response == PostChatResponse(post.message, post.conversationId) IN
          /\ post' = [post EXCEPT !.phase = "resp", !.success = response.success,
                                  !.requestId = response.requestId,
                                  !.conversationId = response.conversationId]
          /\ lastReq' = response.requestId
    /\ UNCHANGED <<chatVars, wsVars, polls, lastVia, submits, pollEnded, apiVars, keepVars,
                   transcriptVars>>

\* sendMessage resumes with the response of apiClient.sendMessage.
PostResolves ==
    /\ post.phase = "resp"
    /\ post' = NoPost
    /\ IF ~post.success
       THEN /\ error' = "Failed to send message"
            /\ isLoading' = FALSE
            /\ usePollingFallback' =
                  FallbackEffect(isConnected, pendingRequestId, FALSE)
            /\ UNCHANGED <<pendingRequestId, conversationIdRef>>
       ELSE /\ conversationIdRef' = post.conversationId
            /\ pendingRequestId' = post.requestId
            /\ usePollingFallback' =
                  FallbackEffect(isConnected, post.requestId, usePollingFallback)
            /\ UNCHANGED <<isLoading, error>>
    /\ UNCHANGED <<finals, wsVars, polls, sentVars, apiVars, keepVars, serverVars>>

\* apiClient.sendMessage rejects (fetch fails or the answer is not ok): the catch
\* block of sendMessage.
PostFails ==
    /\ post.phase \in {"req", "resp"}
    /\ post' = NoPost
    /\ error' = "Failed to send message"
    /\ isLoading' = FALSE
    /\ usePollingFallback' = FallbackEffect(isConnected, pendingRequestId, FALSE)
    /\ UNCHANGED <<pendingRequestId, conversationIdRef, finals, wsVars, polls,
                   sentVars, apiVars, keepVars, serverVars>>

\* clearMessages()
ClearMessages ==
    /\ conversationIdRef' = NoConv
    /\ error' = NoError
    /\ pendingRequestId' = NoReq
    /\ usePollingFallback' = FALSE
    /\ UNCHANGED <<isLoading, finals, wsVars, post, polls, sentVars, apiVars, keepVars, serverVars>>

\* ------------------------------------------------------------ useWebSocket
\* The server accepts the socket connect() created: .ws open.
ServerAccept ==
    /\ wsState = "connecting"
    /\ sock = 0
    /\ nextConn < MaxSockets
    /\ WsOpen(nextConn + 1)
    /\ sock' = nextConn + 1
    /\ UNCHANGED <<chatVars, wsState, isConnected, reconnectAttempts, reconnectTimer,
                   delivered, toServer, post, polls, sentVars, apiVars, keepVars>>

\* ws.onopen
OnOpen ==
    /\ wsState = "connecting"
    /\ sock # 0
    /\ wsState' = "open"
    /\ isConnected' = TRUE
    /\ reconnectAttempts' = 0
    /\ isReconnecting' = FALSE
    /\ leakedIntervals' = IF pingIntervalRef # "none"
                          THEN leakedIntervals + 1 ELSE leakedIntervals
    /\ pingIntervalRef' = "current"
    /\ UNCHANGED <<chatVars, reconnectTimer, sock, delivered, toServer, post, polls,
                   sentVars, apiVars, serverVars>>

\* The closing handshake starts: readyState leaves OPEN before onclose runs.
BeginClose ==
    /\ wsState = "open"
    /\ wsState' = "closing"
    /\ UNCHANGED <<chatVars, isConnected, reconnectAttempts, reconnectTimer, sock,
                   delivered, toServer, post, polls, sentVars, apiVars, keepVars, serverVars>>

\* An onclose that schedules a reconnect whatever the counter says.
OnCloseAlwaysReconnects(code) ==
    /\ wsState \in {"connecting", "open", "closing"}
    /\ wsState' = "closed"
    /\ isConnected' = FALSE
    /\ pingIntervalRef' = "none"
    /\ IF code # 1000
       THEN /\ reconnectAttempts' = reconnectAttempts + 1
            /\ reconnectTimer' = TRUE
            /\ isReconnecting' = TRUE
       ELSE /\ reconnectAttempts' = reconnectAttempts
            /\ reconnectTimer' = FALSE
            /\ isReconnecting' = isReconnecting
    /\ toServer' = <<>>
    /\ usePollingFallback' = FallbackEffect(FALSE, pendingRequestId, usePollingFallback)
    /\ UNCHANGED <<isLoading, error, pendingRequestId, conversationIdRef, finals,
                   sock, delivered, post, polls, sentVars, apiVars, leakedIntervals,
                   serverVars>>

\* ws.onclose(event): event.code 1000 is a clean close. Frames not yet handled by
\* the server are lost with the socket. clearTimers() clears the reconnect
\* timeout and the keepalive interval the refs hold.
OnClose(code) ==
    /\ wsState \in {"connecting", "open", "closing"}
    /\ wsState' = "closed"
    /\ isConnected' = FALSE
    /\ pingIntervalRef' = "none"
    /\ IF code # 1000 /\ reconnectAttempts < maxReconnectAttempts
       THEN /\ reconnectAttempts' = reconnectAttempts + 1
            /\ reconnectTimer' = TRUE
            /\ isReconnecting' = TRUE
       ELSE /\ reconnectAttempts' = reconnectAttempts
            /\ reconnectTimer' = FALSE
            /\ isReconnecting' = isReconnecting
    /\ toServer' = <<>>
    /\ usePollingFallback' = FallbackEffect(FALSE, pendingRequestId, usePollingFallback)
    /\ UNCHANGED <<isLoading, error, pendingRequestId, conversationIdRef, finals,
                   sock, delivered, post, polls, sentVars, apiVars, leakedIntervals,
                   serverVars>>

\* connect(): nothing when wsRef.current is OPEN or CONNECTING, else a new socket
\* in wsRef.current. A socket replaced while CLOSING still has its close event to
\* come, and an interval pingIntervalRef holds is then that of a replaced socket.
Connect ==
    IF wsState \in {"open", "connecting"}
    THEN UNCHANGED <<wsState, sock, delivered, toServer, detached, pingIntervalRef>>
    ELSE /\ wsState = "closing" => detached < MaxSockets
         /\ wsState' = "connecting"
         /\ sock' = 0
         /\ delivered' = 0
         /\ toServer' = <<>>
         /\ detached' = IF wsState = "closing" THEN detached + 1 ELSE detached
         /\ pingIntervalRef' = IF pingIntervalRef = "none" THEN "none" ELSE "superseded"

\* The reconnect timeout fires: connect().
ReconnectFires ==
    /\ reconnectTimer
    /\ reconnectTimer' = FALSE
    /\ Connect
    /\ UNCHANGED <<chatVars, isConnected, reconnectAttempts, post, polls, sentVars,
                   intentional, connectTimer, leakedIntervals, isReconnecting,
                   serverVars>>

\* The server handles the next frame of the client's socket: .ws message.
ServerRecv ==
    /\ sock # 0
    /\ toServer # <<>>
    /\ WsMessage(sock, Head(toServer).message, Head(toServer).conversationId)
    /\ toServer' = Tail(toServer)
    /\ lastReq' = IF Truthy(Head(toServer).message) THEN nextReq + 1 ELSE lastReq
    /\ UNCHANGED <<chatVars, wsState, isConnected, reconnectAttempts, reconnectTimer,
                   sock, delivered, post, polls, lastVia, submits, pollEnded, apiVars, keepVars,
                   transcriptVars>>

\* The server sees one of the client's sockets close: .ws close.
ServerWsClose == \E c \in Conn : WsClose(c) /\ UNCHANGED clientVars

\* ws.onmessage(event) for the next event the server sent on the socket.
OnMessage ==
    /\ wsState = "open"
    /\ delivered < Len(outbox[sock])
    /\ delivered' = delivered + 1
    /\ LET data == outbox[sock][delivered + 1] IN
          CASE data.type = "message_received" ->
                  OnMessageReceived(data.requestId, data.conversationId)
            [] data.type = "message_complete" ->
                  IF data.requestId # NoReq /\ data.message # NoResponse
                  THEN OnMessageComplete(data.requestId)
                  ELSE UNCHANGED chatVars
            [] data.type = "message_error" ->
                  IF data.requestId # NoReq /\ data.error # ""
                  THEN OnMessageError(data.requestId, data.error)
                  ELSE UNCHANGED chatVars
            [] OTHER -> UNCHANGED chatVars
    /\ UNCHANGED <<wsState, isConnected, reconnectAttempts, reconnectTimer, sock,
                   toServer, post, polls, sentVars, apiVars, keepVars, serverVars>>

\* ------------------------------------------------------------ usePolling
\* poll(): pollFn issues GET /api/messages/:pendingRequestId. Polling is enabled
\* while usePollingFallback && !!pendingRequestId; start() polls at once and the
\* interval polls again whether or not an earlier query has been answered.
PollIssue(s) ==
    /\ usePollingFallback
    /\ pendingRequestId # NoReq
    /\ polls[s].phase = "none"
    /\ polls' = [polls EXCEPT ![s] = [NoPoll EXCEPT !.phase = "req",
                                                    !.requestId = pendingRequestId]]
    /\ UNCHANGED <<chatVars, wsVars, post, sentVars, apiVars, keepVars, serverVars>>

\* The server answers the query.
ServerPoll(s) ==
    /\ polls[s].phase = "req"
    /\ LET response == StatusResponse(polls[s].requestId) IN
          polls' = [polls EXCEPT ![s] =
                      [phase |-> "resp", requestId |-> polls[s].requestId,
                       success |-> response.success, status |-> response.status,
                       message |-> response.message, error |-> response.error]]
    /\ UNCHANGED <<chatVars, wsVars, post, sentVars, apiVars, keepVars, serverVars>>

\* poll() resumes with the answer: onResult(result), whatever happened meanwhile.
PollResolves(s) ==
    /\ polls[s].phase = "resp"
    /\ polls' = [polls EXCEPT ![s] = NoPoll]
    /\ HandlePollResult(polls[s])
    /\ pollEnded' = IF polls[s].status \in {"completed", "error", "not_found"}
                    THEN pollEnded \cup {polls[s].requestId}
                    ELSE pollEnded
    /\ UNCHANGED <<wsVars, post, lastVia, lastReq, submits, apiVars, keepVars, serverVars>>

\* pollFn rejects: onError.
PollFails(s) ==
    /\ polls[s].phase \in {"req", "resp"}
    /\ polls' = [polls EXCEPT ![s] = NoPoll]
    /\ OnPollError
    /\ UNCHANGED <<wsVars, post, sentVars, apiVars, keepVars, serverVars>>

\* ------------------------------------------------------------ SpecClient
Send == \E content \in Msgs : SendMessage(content)
Closed == \E code \in {1000, 1006} : OnClose(code)
Polling == \E s \in 1..MaxPolls :
              PollIssue(s) \/ ServerPoll(s) \/ PollResolves(s) \/ PollFails(s)

\* One useChat client, its socket and its queries, against the server.
NextSession ==
    \/ Send \/ ServerPost \/ PostResolves \/ PostFails
    \/ ServerAccept \/ OnOpen \/ BeginClose \/ Closed \/ ReconnectFires
    \/ ServerRecv \/ ServerWsClose \/ OnMessage
    \/ Polling
    \/ RunNoTools

NextClient == NextSession \/ ClearMessages

SpecClient == Init /\ [][NextClient]_vars

\* What the client's and the server's schedulers guarantee: a request or frame in
\* flight is handled, an answer or event that has arrived is delivered, a started
\* handshake or close completes, a due timer fires, enabled polling polls, a run
\* takes its next step. Failures (PostFails, PollFails, sockets closing) and the
\* user's calls may or may not happen.
ClientFairness ==
    /\ WF_vars(ServerPost) /\ WF_vars(PostResolves)
    /\ WF_vars(ServerAccept) /\ WF_vars(OnOpen)
    /\ WF_vars(wsState = "closing" /\ Closed)
    /\ WF_vars(ReconnectFires)
    /\ WF_vars(ServerRecv) /\ WF_vars(OnMessage)
    /\ \A s \in 1..MaxPolls :
          WF_vars(PollIssue(s)) /\ WF_vars(ServerPoll(s)) /\ WF_vars(PollResolves(s))
    /\ WF_vars(RunNoTools)

\* SpecClientLive: a session in which the user sends and never clears.
SpecClientLive == Init /\ [][NextSession]_vars /\ ClientFairness

\* ------------------------------------------------------------ SpecSocket
\* disconnect(): clearTimers(), close(1000) on the current socket (its close event
\* comes later, to the handlers it still carries), wsRef.current = null,
\* setIsConnected(false), reconnectAttemptsRef.current = maxReconnectAttempts.
DisconnectBody ==
    /\ detached < MaxSockets
    /\ reconnectTimer' = FALSE
    /\ detached' = IF wsState \in {"connecting", "open", "closing"}
                   THEN detached + 1 ELSE detached
    /\ wsState' = "none"
    /\ sock' = 0
    /\ delivered' = 0
    /\ toServer' = <<>>
    /\ isConnected' = FALSE
    /\ reconnectAttempts' = maxReconnectAttempts
    /\ pingIntervalRef' = "none"
    /\ usePollingFallback' = FallbackEffect(FALSE, pendingRequestId, usePollingFallback)
    /\ UNCHANGED <<isLoading, error, pendingRequestId, conversationIdRef, finals,
                   post, polls, sentVars, leakedIntervals, isReconnecting, serverVars>>

Disconnect ==
    /\ DisconnectBody
    /\ intentional' = TRUE
    /\ UNCHANGED connectTimer

\* reconnect(): the counter is set to 0, disconnect() sets it to the maximum
\* again, and connect is scheduled 100 ms later by a timeout that no ref keeps.
Reconnect ==
    /\ connectTimer < MaxConnectTimers
    /\ DisconnectBody
    /\ intentional' = FALSE
    /\ connectTimer' = connectTimer + 1

\* The timeout of reconnect() fires: connect().
ConnectFires ==
    /\ connectTimer > 0
    /\ connectTimer' = connectTimer - 1
    /\ Connect
    /\ UNCHANGED <<chatVars, isConnected, reconnectAttempts, reconnectTimer, post, polls,
                   sentVars, intentional, leakedIntervals, isReconnecting, serverVars>>

\* ws.onclose(event) of a socket that is no longer wsRef.current (closed by
\* disconnect(), or replaced by connect() while closing): the same handler, run
\* on the hook's current state and refs.
DetachedClose(code) ==
    /\ detached > 0
    /\ detached' = detached - 1
    /\ isConnected' = FALSE
    /\ pingIntervalRef' = "none"
    /\ IF code # 1000 /\ reconnectAttempts < maxReconnectAttempts
       THEN /\ reconnectAttempts' = reconnectAttempts + 1
            /\ reconnectTimer' = TRUE
            /\ isReconnecting' = TRUE
       ELSE /\ reconnectAttempts' = reconnectAttempts
            /\ reconnectTimer' = FALSE
            /\ isReconnecting' = isReconnecting
    /\ usePollingFallback' = FallbackEffect(FALSE, pendingRequestId, usePollingFallback)
    /\ UNCHANGED <<isLoading, error, pendingRequestId, conversationIdRef, finals,
                   wsState, sock, delivered, toServer, post, polls, sentVars,
                   intentional, connectTimer, leakedIntervals, serverVars>>

ClosedDetached == \E code \in {1000, 1006} : DetachedClose(code)

\* useWebSocket on its own: its sockets against the server, with disconnect() and
\* reconnect() called at any moment.
NextSocket ==
    \/ ServerAccept \/ OnOpen \/ BeginClose \/ Closed \/ ReconnectFires
    \/ ServerWsClose
    \/ Disconnect \/ Reconnect \/ ConnectFires \/ ClosedDetached

SpecSocket == Init /\ [][NextSocket]_vars

\* ------------------------------------------------------------ SpecMcp
\* MCPManager.initialize() with MCP_SERVER_PATH set, up to its first await: the
\* isInitialized test, new StdioClientTransport, new Client, client.connect.
Initialize(k) ==
    /\ initPc[k] = "idle"
    /\ IF isInitialized
       THEN UNCHANGED <<mcpClient, transports, initPc>>
       ELSE /\ mcpClient' = "set"
            /\ transports' = transports + 1
            /\ initPc' = [initPc EXCEPT ![k] = "connect"]
    /\ UNCHANGED <<isInitialized, skills>>

\* client.connect resolves: refreshSkills() awaits this.client.listTools(), or
\* sets skills to [] and returns when this.client is null.
ConnectResolves(k) ==
    /\ initPc[k] = "connect"
    /\ IF mcpClient = "null"
       THEN /\ skills' = "empty"
            /\ isInitialized' = TRUE
            /\ initPc' = [initPc EXCEPT ![k] = "idle"]
       ELSE /\ initPc' = [initPc EXCEPT ![k] = "refresh"]
            /\ UNCHANGED <<skills, isInitialized>>
    /\ UNCHANGED <<mcpClient, transports>>

\* client.connect rejects: the catch block of initialize.
ConnectRejects(k) ==
    /\ initPc[k] = "connect"
    /\ isInitialized' = TRUE
    /\ initPc' = [initPc EXCEPT ![k] = "idle"]
    /\ UNCHANGED <<mcpClient, skills, transports>>

\* listTools resolves (listed) or rejects (refreshSkills catches: skills = []);
\* initialize then sets isInitialized.
ListToolsReturns(k) ==
    /\ initPc[k] = "refresh"
    /\ \E listed \in BOOLEAN : skills' = IF listed THEN "listed" ELSE "empty"
    /\ isInitialized' = TRUE
    /\ initPc' = [initPc EXCEPT ![k] = "idle"]
    /\ UNCHANGED <<mcpClient, transports>>

\* listSkills(): if (!this.isInitialized) await this.initialize().
ListSkills(k) == Initialize(k)

\* shutdown(): client and transport closed and set to null, isInitialized false.
Shutdown ==
    /\ mcpClient' = "null"
    /\ transports' = 0
    /\ isInitialized' = FALSE
    /\ UNCHANGED <<skills, initPc>>

McpRest == UNCHANGED <<dbConfigured, now, nextReq, mem, dbRows, pc, rounds, caught,
                       wsConnections, channels, nextConn, outbox, swept,
                       transcriptVars, clientVars>>

\* SpecMcp: the MCPManager singleton under callers of initialize, listSkills and
\* shutdown.
NextMcp ==
    \/ \E k \in Caller : Initialize(k) /\ McpRest
    \/ \E k \in Caller : ListSkills(k) /\ McpRest
    \/ \E k \in Caller : ConnectResolves(k) /\ McpRest
    \/ \E k \in Caller : ConnectRejects(k) /\ McpRest
    \/ \E k \in Caller : ListToolsReturns(k) /\ McpRest
    \/ Shutdown /\ McpRest

SpecMcp == Init /\ [][NextMcp]_vars

\* ------------------------------------------------------------ SpecLookup
\* A lookup that hands a request out once: the entry is removed when read.
GetMessagesOnce(s, id) ==
    /\ LET response == StatusResponse(id) IN
          polls' = [polls EXCEPT ![s] =
                      [phase |-> "resp", requestId |-> id,
                       success |-> response.success, status |-> response.status,
                       message |-> response.message, error |-> response.error]]
    /\ mem' = [mem EXCEPT ![id] = Absent]
    /\ UNCHANGED <<mcpVars, dbConfigured, now, nextReq, dbRows, pc, rounds, caught,
                   wsConnections, channels, nextConn, outbox, swept, transcriptVars>>
    /\ UNCHANGED <<chatVars, wsVars, post, sentVars, apiVars, keepVars>>

\* GET /api/messages/:requestId from any HTTP client, for any id: query s is
\* answered with what getRequestStatus finds; nothing is written.
GetMessages(s, id) ==
    /\ LET response == StatusResponse(id) IN
          polls' = [polls EXCEPT ![s] =
                      [phase |-> "resp", requestId |-> id,
                       success |-> response.success, status |-> response.status,
                       message |-> response.message, error |-> response.error]]
    /\ UNCHANGED <<chatVars, wsVars, post, sentVars, apiVars, keepVars, serverVars>>

Get == \E s \in 1..MaxPolls, id \in Req : GetMessages(s, id)

\* Submissions, runs, sweeps and the clock, with status lookups at any moment.
NextLookup == Post \/ Run \/ Sweep \/ Tick \/ Get

SpecLookup == Init /\ [][NextLookup]_vars

\* ================================================================ claims
Rank(s) == CASE s = "pending" -> 0
             [] s = "processing" -> 1
             [] s \in Terminal -> 2
             [] OTHER -> 3

\* C2: in every step, the status of a stored request does not move backward along
\* pending -> processing -> {completed, error}, and a completed or error status
\* is left as it is.
StatusMonotone ==
    [][\A r \in Req :
          LET a == Stored(r).status
              b == StoredIn(mem', dbRows', r).status
          IN  (a # "absent" /\ b # "absent") =>
                 /\ Rank(a) <= Rank(b)
                 /\ (a \in Terminal => b = a)]_vars

\* C2 witness: a run has ended and left its request completed or in error.
TerminalReached ==
    \E r \in Req : pc[r] = "done" /\ Stored(r).status \in Terminal

\* C3: a run that has ended has left its request, if still stored, completed or in
\* error (nothing changes the status after the run, so a request the run leaves
\* in another status never reaches a terminal one).
RunEndsTerminal ==
    \A r \in Req :
        (pc[r] = "done" /\ Stored(r).status # "absent") => Stored(r).status \in Terminal

\* C4: no run executes more tool rounds than the configured maximum.
LoopLimitEnforced == \A r \in Req : rounds[r] <= LoopLimit

\* C5: every message_complete / message_error was sent on a connection whose
\* registered conversationId was the request's conversationId.
NotifiedSameConversation ==
    \A c \in Conn : \A i \in DOMAIN outbox[c] :
        outbox[c][i].type \in TerminalEvents =>
            outbox[c][i].connConv = Stored(outbox[c][i].requestId).conversationId

\* C6: on each connection, each request has at most one terminal event
\* (message_complete or message_error) among the events sent.
TerminalEventsOf(c, r) ==
    {i \in DOMAIN outbox[c] :
        outbox[c][i].type \in TerminalEvents /\ outbox[c][i].requestId = r}

AtMostOneTerminalEvent ==
    \A c \in Conn, r \in Req : Cardinality(TerminalEventsOf(c, r)) <= 1

\* C6 witness: a connection has been sent the terminal event of a request.
TerminalEventSent ==
    \E c \in Conn, r \in Req : Cardinality(TerminalEventsOf(c, r)) = 1

TerminalAbsorbing ==
    [][\A r \in Req :
          Stored(r).status \in Terminal => StoredIn(mem', dbRows', r) = Stored(r)]_vars

\* C1: the client applies the final outcome of a request (appends its answer or
\* records its error) at most once.
FinalAppliedOnce == \A r \in Req : finals[r] <= 1

\* C7: whenever the client is loading, it later is not.
LoadingEnds == isLoading ~> ~isLoading

\* C8: when the last submission went over the socket, the server created its
\* request, the socket has closed and no outcome has arrived, polling is on for
\* that request.
PollingEngagedOnClose ==
    (lastVia = "ws" /\ lastReq # NoReq /\ wsState = "closed" /\ isLoading
       /\ finals[lastReq] = 0)
        => (usePollingFallback /\ pendingRequestId = lastReq)

\* C11: every stored request has a response if and only if it is completed.
ResponseIffCompleted ==
    \A r \in Req :
        Stored(r).status # "absent" =>
            (Stored(r).response # NoResponse <=> Stored(r).status = "completed")

\* C12: every stored request has an error text if and only if its status is error.
ErrorIffError ==
    \A r \in Req :
        Stored(r).status # "absent" =>
            (Stored(r).error # NoError <=> Stored(r).status = "error")

\* C12 witness: a run has failed and its request is stored in error with the text.
ErrorRecorded ==
    \E r \in Req : pc[r] = "done" /\ Stored(r).status = "error"
                     /\ Stored(r).error = caught[r] /\ caught[r] # NoError

OwnEntries(r) ==
    IF history[r] = NoRef THEN <<>>
    ELSE SelectSeq(arrays[history[r]], LAMBDA e : e.req = r)

OwnTools(r) == SelectSeq(OwnEntries(r), LAMBDA e : e.role = "tool")

ThrowEndsInError ==
    \A r \in Req :
        (pc[r] = "done" /\ caught[r] # NoError /\ r \notin swept) =>
            /\ Stored(r).status = "error"
            /\ Stored(r).error = caught[r]

\* C16: a submission whose message is empty or whitespace-only creates no
\* request and starts no run, on the HTTP path and on the push-channel path:
\* every request created, and every run started, was given a message with text.
NoBlankRequest ==
    \A r \in Req :
        (r <= nextReq \/ pc[r] # "none" \/ Stored(r).status # "absent") =>
            Truthy(Trim(args[r].message))

\* The run of r ended through its final answer (the final assistant message is
\* pushed; completeRequest may or may not have run yet).
Answered(r) == pc[r] = "complete" \/ (pc[r] = "done" /\ caught[r] = NoError)

\* r is the only run of its conversation, so the conversation was fresh when
\* the run began and no other run appends to its transcript.
FreshConversation(r) ==
    \A q \in Req : (q # r /\ q <= nextReq) => args[q].conversationId # args[r].conversationId

\* Every round of r carried one tool call.
OneCallRounds(r) ==
    \A i \in DOMAIN OwnEntries(r) :
        OwnEntries(r)[i].role = "assistant" => OwnEntries(r)[i].calls <= 1

CountOf(seq, Test(_)) == Len(SelectSeq(seq, Test))

\* C17: for a fresh conversation and a model that issues k rounds of one tool
\* call each and then a final answer, the run invokes executeSkill exactly k
\* times and the transcript has 1 system + 1 user + k assistant-with-call +
\* k tool-result + 1 final assistant entries, 3 + 2k in all.
TranscriptLength ==
    \A r \in Req :
        (Answered(r) /\ FreshConversation(r) /\ OneCallRounds(r)) =>
            LET t == arrays[history[r]]
                k == rounds[r]
            IN  /\ Len(results[r]) = k
                /\ Len(t) = 3 + 2 * k
                /\ CountOf(t, LAMBDA e : e.role = "system") = 1
                /\ CountOf(t, LAMBDA e : e.role = "user") = 1
                /\ CountOf(t, LAMBDA e : e.role = "assistant" /\ e.calls = 1) = k
                /\ CountOf(t, LAMBDA e : e.role = "tool") = k
                /\ CountOf(t, LAMBDA e : e.role = "assistant" /\ e.calls = 0) = 1
                /\ pc[r] = "done" =>
                      arrays[inMemoryConversations[args[r].conversationId]] = t

\* C17 witness: a run of two rounds of one call each has answered and completed.
TwoRoundsAnswered ==
    \E r \in Req :
        /\ pc[r] = "done" /\ caught[r] = NoError
        /\ FreshConversation(r) /\ OneCallRounds(r)
        /\ rounds[r] = 2
        /\ Len(results[r]) = 2
        /\ Len(arrays[history[r]]) = 7

\* The entries of one run from position i on, with `owed` tool results still to
\* come for the round in progress: tool results while some are owed, then the
\* next assistant message, which either opens a round or is final and last.
RECURSIVE InOrder(_, _, _, _)
InOrder(s, i, owed, whole) ==
    IF i > Len(s)
    THEN whole => (owed = 0 /\ s[Len(s)].role = "assistant" /\ s[Len(s)].calls = 0)
    ELSE IF owed > 0
         THEN s[i].role = "tool" /\ InOrder(s, i + 1, owed - 1, whole)
         ELSE /\ s[i].role = "assistant"
              /\ IF s[i].calls > 0
                 THEN InOrder(s, i + 1, s[i].calls, whole)
                 ELSE i = Len(s)

RunOrder(s, whole) == s # <<>> /\ s[1].role = "user" /\ InOrder(s, 2, 0, whole)

\* C18: the first entry of every stored transcript is the system instruction
\* (and no later entry is), and the entries one run appends appear in the order
\* user message, then per round the assistant entry with its tool invocations
\* followed by one tool-result entry per invocation, then the final assistant
\* message.
TranscriptOrdered ==
    /\ \A a \in Refs :
          arrays[a] # <<>> =>
             /\ arrays[a][1] = SystemMessage
             /\ \A i \in 2..Len(arrays[a]) : arrays[a][i].role # "system"
    /\ \A conv \in ConvIds :
          inMemoryConversations[conv] # NoRef => arrays[inMemoryConversations[conv]] # <<>>
    /\ \A r \in Req :
          history[r] # NoRef =>
             /\ arrays[history[r]] # <<>>
             /\ RunOrder(OwnEntries(r), Answered(r))

\* C18 witness: a run with a round of two tool invocations has answered, its
\* transcript stored under its conversation.
TwoCallRoundStored ==
    \E r \in Req :
        /\ pc[r] = "done" /\ caught[r] = NoError
        /\ inMemoryConversations[args[r].conversationId] = history[r]
        /\ \E i \in DOMAIN OwnEntries(r) :
              /\ OwnEntries(r)[i].role = "assistant"
              /\ OwnEntries(r)[i].calls = 2
              /\ OwnEntries(r)[i + 1].role = "tool"
              /\ OwnEntries(r)[i + 2].role = "tool"

\* The answer to a lookup that finds nothing.
NotFound == [success |-> FALSE, status |-> "not_found", message |-> NoResponse,
             error |-> "Request not found"]

\* The answer recorded for query s.
Answer(s) == [success |-> polls[s].success, status |-> polls[s].status,
              message |-> polls[s].message, error |-> polls[s].error]

\* C19: for every id that was never created the status lookup answers
\* not_found, whatever submissions, runs and sweeps have happened: the lookup
\* of such an id finds nothing in any state, and no answer given for it says
\* otherwise.
NeverCreatedNotFound ==
    \A r \in Req :
        r > nextReq =>
            /\ StatusResponse(r) = NotFound
            /\ \A s \in 1..MaxPolls :
                  (polls[s].phase = "resp" /\ polls[s].requestId = r) => Answer(s) = NotFound

\* C19 witness: after a request was created, run to its end and swept, the
\* lookup of an id that was never created has been answered not_found.
UnknownIdLookedUp ==
    \E r \in Req, s \in 1..MaxPolls :
        /\ r > nextReq
        /\ nextReq > 0
        /\ \E q \in swept : pc[q] = "done"
        /\ polls[s].phase = "resp" /\ polls[s].requestId = r
        /\ Answer(s) = NotFound

\* C20: between a request's terminal transition and its removal by a sweep the
\* payload of its status lookup does not change, so any two lookups in between
\* return the same status, message and error; and a lookup never modifies the
\* registry.
LookupStable ==
    [][/\ \A r \in Req :
             (Stored(r).status \in Terminal /\ r \notin swept') =>
                 StatusResponse(r)' = StatusResponse(r)
       /\ polls' # polls => (mem' = mem /\ dbRows' = dbRows /\ swept' = swept)]_vars

\* C20 witness: two lookups of a completed request that is held in memory and
\* not swept have been answered, both with the request's payload.
TwoLookupsAnswered ==
    \E r \in Req :
        /\ mem[r].status = "completed"
        /\ r \notin swept
        /\ polls[1].phase = "resp" /\ polls[1].requestId = r
        /\ polls[2].phase = "resp" /\ polls[2].requestId = r
        /\ Answer(1) = Answer(2)
        /\ Answer(1).status = "completed"
        /\ Answer(1).message = mem[r].response

\* C21: a sweep with maxAge removes exactly the stored requests with
\* now - createdAt > maxAge (createdAt before the cutoff), whatever their status,
\* so that once a sweep has run no request older than its cutoff is stored, and
\* the lookup of a request a sweep removed answers not_found.
SweepExact ==
    /\ cutoffTime # NoCutoff =>
          \A r \in Req : Stored(r).status # "absent" => Stored(r).createdAt >= cutoffTime
    /\ \A r \in swept : StatusResponse(r) = NotFound

SentOnOnePath ==
    submits > 0 => lastVia \in {"ws", "http"}

\* C24: after an unexpected (non-1000) close a reconnect is scheduled if and
\* only if the attempt counter is below maxReconnectAttempts, and scheduling
\* increments the counter by one; a successful open resets the counter to zero;
\* the counter never exceeds the maximum.
ReconnectCounter ==
    [][/\ \A code \in {1000, 1006} :
             (OnClose(code) \/ DetachedClose(code)) =>
                /\ reconnectTimer' <=>
                      (code # 1000 /\ reconnectAttempts < maxReconnectAttempts)
                /\ reconnectAttempts' =
                      IF reconnectTimer' THEN reconnectAttempts + 1 ELSE reconnectAttempts
       /\ OnOpen => reconnectAttempts' = 0
       /\ reconnectAttempts' > reconnectAttempts =>
             (reconnectTimer' \/ reconnectAttempts' = maxReconnectAttempts)
       /\ reconnectAttempts' <= maxReconnectAttempts]_vars

\* C24 witness: without disconnect() or reconnect() having been called, the
\* counter stands at the maximum after an unexpected close and no reconnect is
\* scheduled.
ReconnectsExhausted ==
    /\ reconnectAttempts = maxReconnectAttempts
    /\ wsState = "closed"
    /\ ~reconnectTimer
    /\ ~intentional /\ connectTimer = 0 /\ detached = 0
    /\ nextConn = 0

\* C25: after an intentional disconnect() no automatic reconnect is scheduled
\* (and so none is executed) until reconnect() is called.
NoReconnectAfterDisconnect == intentional => ~reconnectTimer

\* C27: the skillExecution attached to the response of a run is present if and
\* only if the run executed at least one skill, and then it is the last
\* executed invocation with its output or { error }.
LastExecutionAttached ==
    \A r \in Req :
        chatMessage[r].built =>
            chatMessage[r].skillExecution =
                IF results[r] = <<>> THEN NoExecution
                ELSE SkillExecution(Len(results[r]), results[r][Len(results[r])])

\* C27 witness: a completed run that executed several skills, the first with
\* success and the last failing.
SeveralExecutionsCompleted ==
    \E r \in Req :
        /\ StatusResponse(r).status = "completed"
        /\ chatMessage[r].built
        /\ Len(results[r]) >= 2
        /\ results[r][1]
        /\ ~results[r][Len(results[r])]

\* C30: a message_complete or message_error event that arrives while the client
\* has nothing outstanding (no pending request id, not loading) changes no
\* client state.
OnlyOutstandingHandled ==
    [][(/\ OnMessage
        /\ outbox[sock][delivered + 1].type \in {"message_complete", "message_error"}
        /\ pendingRequestId = NoReq
        /\ ~isLoading)
       => UNCHANGED chatVars]_vars

\* C26: two submissions that carry no conversationId are given different
\* conversationIds (and so never share a transcript).
GeneratedIdsDistinct ==
    \A r1, r2 \in 1..nextReq :
        (/\ r1 # r2
         /\ args[r1].conversationId \in Time
         /\ args[r2].conversationId \in Time)
        => args[r1].conversationId # args[r2].conversationId

\* The array inMemoryConversations holds for a conversation.
StoredTranscript(conv) ==
    IF inMemoryConversations[conv] = NoRef THEN <<>>
    ELSE arrays[inMemoryConversations[conv]]

\* s is t or a beginning of t.
IsPrefix(s, t) == Len(s) <= Len(t) /\ SubSeq(t, 1, Len(s)) = s

\* C28: without a durable store the runs of one conversation write one array,
\* the one inMemoryConversations holds, none waiting for another.
RunsShareArray ==
    \A r1, r2 \in Req :
        (/\ ~dbConfigured
         /\ history[r1] # NoRef /\ history[r2] # NoRef
         /\ args[r1].conversationId = args[r2].conversationId)
        => /\ history[r1] = history[r2]
           /\ history[r1] = inMemoryConversations[args[r1].conversationId]

\* C28 witness: in the array of the conversation two submitters named, an entry
\* of one run lies between the user message and the final assistant message of
\* the other run.
Interleaved ==
    \E r1, r2 \in Req :
        LET t == StoredTranscript(UserConv) IN
        /\ r1 # r2
        /\ \E i, j, k \in DOMAIN t :
              /\ i < j /\ j < k
              /\ t[i].role = "user" /\ t[i].req = r1
              /\ t[j].req = r2
              /\ t[k].role = "assistant" /\ t[k].calls = 0 /\ t[k].req = r1

RoundsWhole(t) ==
    \A i \in DOMAIN t :
        (t[i].role = "assistant" /\ t[i].calls > 0) =>
            /\ i + t[i].calls <= Len(t)
            /\ \A j \in 1..t[i].calls : t[i + j].role = "tool"

\* C31: when a run has ended in error, the transcript stored for its
\* conversation holds no partial round: every assistant entry that carries tool
\* invocations is followed by one tool-result entry per invocation.
NoPartialRound ==
    \A r \in Req :
        (pc[r] = "done" /\ caught[r] # NoError)
        => RoundsWhole(StoredTranscript(args[r].conversationId))

\* C32: the server's connection set contains a connection exactly while its
\* channel is open (added by the open handler, removed by the close handler).
ConnectionSetExact ==
    \A c \in Conn : wsConnections[c].open <=> c \in channels

\* C35: on the push channel the message_received acknowledgment of a request
\* is sent to the submitting connection before any message_complete or
\* message_error for that request.
AckBeforeTerminal ==
    \A c \in Conn :
        \A i, j \in DOMAIN outbox[c] :
            (/\ outbox[c][i].type = "message_received"
             /\ outbox[c][j].type \in {"message_complete", "message_error"}
             /\ outbox[c][j].requestId = outbox[c][i].requestId)
            => i < j

\* C35 witness: a connection has been sent the acknowledgment of its request
\* and, later, the request's terminal event.
AckThenTerminal ==
    \E c \in Conn :
        \E i, j \in DOMAIN outbox[c] :
            /\ i < j
            /\ outbox[c][i].type = "message_received"
            /\ outbox[c][j].type \in {"message_complete", "message_error"}
            /\ outbox[c][j].requestId = outbox[c][i].requestId

\* C39: however initialize() and listSkills() calls interleave, at most one MCP
\* transport / client connection is created between shutdowns.
OneMcpConnection == transports <= 1

\* Keepalive intervals that are running: the one pingIntervalRef holds and those
\* no ref holds any more.
ActiveKeepalives ==
    leakedIntervals + (IF pingIntervalRef # "none" THEN 1 ELSE 0)

\* C33: at most one keepalive timer is active at any time, the one the hook
\* holds for its current socket runs only once that socket has opened, and no
\* keepalive timer is active while the channel is not connected.
KeepaliveSingle ==
    /\ ActiveKeepalives <= 1
    /\ pingIntervalRef = "current" => wsState \in {"open", "closing"}
    /\ ~isConnected => ActiveKeepalives = 0

\* C34: the close event of a superseded socket (one closed by disconnect() or
\* reconnect(), or replaced by connect()) that arrives while the current socket
\* is open leaves the exposed connectivity state, the timers of the current
\* connection and the reconnect schedule as they were.
SupersededCloseIgnored ==
    [][\A code \in {1000, 1006} :
          (DetachedClose(code) /\ wsState = "open")
          => /\ isConnected' = isConnected
             /\ pingIntervalRef' = pingIntervalRef
             /\ reconnectTimer' = reconnectTimer]_vars

\* C36: after a manual reconnect() the attempt counter is zero.
ReconnectRestoresBudget ==
    [][Reconnect => reconnectAttempts' = 0]_vars

\* C37: isReconnecting is true only while a reconnect is scheduled or a
\* connection attempt is in progress.
ReconnectingMeansPending ==
    isReconnecting => (reconnectTimer \/ wsState = "connecting")

\* C38: whenever the client is loading, a delivery mechanism is live for its
\* outstanding request: the push channel is connected, or polling is enabled
\* with a request id, or the HTTP submission is still in flight.
LoadingHasDelivery ==
    isLoading =>
        \/ isConnected
        \/ usePollingFallback /\ pendingRequestId # NoReq
        \/ post.phase \in {"req", "resp"}

====
